---------------------------- MODULE Spec2Model ----------------------------
(***************************************************************************)
(* A model of app.py, the aliasing / DFT visualizer.                       *)
(*                                                                         *)
(* The script runs top to bottom once per render.  Its state is the five   *)
(* widget values, the module-level names it assigns (t_analog, v_analog,   *)
(* dt_sample, n_samples, t_sample, v_sample, f_nyquist, f_alias,           *)
(* is_aliased), the elements it has sent to the page (ui) and the          *)
(* exception, if any, that ended the run.                                  *)
(*                                                                         *)
(* Arithmetic.  Times and voltages are exact rationals <<num, den>> with   *)
(* den > 0 (T_DISPLAY = 0.1 is 1/10).  Angles are measured in turns, so    *)
(* omega * t = 2*pi*freq*t is the rational freq * t.  np.sin is modelled   *)
(* by Bhaskara's rational approximation (exact at multiples of 30          *)
(* degrees, absolute error below 0.002 elsewhere); sign, arcsin(sin(.))    *)
(* and floor are exact.  Voltages are whole volts, a subset of the         *)
(* sliders' 0.1 V grid; frequencies are integers as the sliders deliver.   *)
(***************************************************************************)
EXTENDS Integers, Sequences, FiniteSets

(***************************************************************************)
(* Bounds of the model.                                                    *)
(***************************************************************************)
\* waveform sweep: every shape, small frequencies, also non-positive rates
MaxAmplitude == 2
MaxDcOffset == 1
MaxSweepFreq == 25
MaxSweepSampling == 32
MaxNegSampling == 21
\* spectrum sweep: the sliders' default waveform, wide frequency ranges
MaxSignalFreq == 120
MaxSamplingFreq == 100
\* number of points of the "analog" grid (10000 in the source, reduced here)
N_ANALOG == 7

(***************************************************************************)
(* Program constants.                                                      *)
(***************************************************************************)
T_DISPLAY == <<1, 10>>          \* 0.1 s
DefaultDcOffset == 0
DefaultAmplitude == 5
DefaultShape == "sine"
ShapeOptions == {"sine", "square", "triangle", "sawtooth"}
\* a value outside the selectbox's options, for calls of get_signal_value
\* with a shape the if/elif chain does not know
UnknownShape == "hexagon"

(***************************************************************************)
(* Rational helpers.                                                       *)
(***************************************************************************)
Abs(x) == IF x < 0 THEN -x ELSE x

RatEq(a, b) == a[1] * b[2] = b[1] * a[2]
RatLess(a, b) == a[1] * b[2] < b[1] * a[2]

\* int(x) of Python: truncation toward zero of the rational n/d, d > 0
PyInt(n, d) == IF n >= 0 THEN n \div d ELSE -((-n) \div d)

\* np.floor of the rational n/d, d > 0
np_floor(n, d) == n \div d

(***************************************************************************)
(* numpy functions used by the script.                                     *)
(***************************************************************************)
\* np.linspace(0, stop, num) for num >= 0: num evenly spaced points with
\* both end points; one point is the start alone
np_linspace(stop, num) ==
    IF num = 1 THEN << <<0, 1>> >>
    ELSE [k \in 1..num |-> <<(k - 1) * stop[1], stop[2] * (num - 1)>>]

\* sin of a half turn fraction a/b in [0, 1]: sin(pi*y), y = a/b
\*   16 y (1 - y) / (5 - 4 y (1 - y))
SinHalfTurn(a, b) == <<16 * a * (b - a), 5 * b * b - 4 * a * (b - a)>>

\* np.sin(2*pi*x) for the rational x = xn/xd >= 0
np_sin(xn, xd) ==
    LET p == xn % xd
    IN  IF 2 * p <= xd
        THEN SinHalfTurn(2 * p, xd)
        ELSE LET s == SinHalfTurn(2 * p - xd, xd) IN <<-s[1], s[2]>>

\* np.sign
np_sign(r) == IF r[1] > 0 THEN <<1, 1>> ELSE IF r[1] < 0 THEN <<-1, 1>> ELSE <<0, 1>>

\* (2/pi) * np.arcsin(np.sin(2*pi*x)): the angle folded into [-pi/2, pi/2],
\* in units of pi/2
TriangleOf(xn, xd) ==
    LET p == xn % xd
    IN  IF 4 * p <= xd THEN <<4 * p, xd>>
        ELSE IF 4 * p <= 3 * xd THEN <<2 * xd - 4 * p, xd>>
        ELSE <<4 * p - 4 * xd, xd>>

\* faulty variant: floor(t*freq) instead of floor(0.5 + t*freq)
SawtoothNoHalf(xn, xd) == <<2 * (xn - np_floor(xn, xd) * xd), xd>>

\* 2 * (t*freq - np.floor(0.5 + t*freq)) for t*freq = xn/xd
SawtoothOf(xn, xd) == <<2 * (xn - np_floor(xd + 2 * xn, 2 * xd) * xd), xd>>

\* the if/elif chain of get_signal_value: value stays 0 for an unknown shape
ShapeValue(t, shape, freq) ==
    LET xn == t[1] * freq
        xd == t[2]
    IN  IF shape = "sine" THEN np_sin(xn, xd)
        ELSE IF shape = "square" THEN np_sign(np_sin(xn, xd))
        ELSE IF shape = "triangle" THEN TriangleOf(xn, xd)
        ELSE IF shape = "sawtooth" THEN SawtoothOf(xn, xd)
        ELSE <<0, 1>>

\* faulty variant: the offset scaled with the waveform, amp * (dc + value)
get_signal_value_scaled_dc(t, shape, freq, amp, dc) ==
    LET v == ShapeValue(t, shape, freq)
    IN  <<amp * (dc * v[2] + v[1]), v[2]>>

\* get_signal_value at one time: dc + amp * value
get_signal_value(t, shape, freq, amp, dc) ==
    LET v == ShapeValue(t, shape, freq)
    IN  <<dc * v[2] + amp * v[1], v[2]>>

\* get_signal_value on an array of times (numpy broadcasting)
get_signal_values(ts, shape, freq, amp, dc) ==
    [i \in DOMAIN ts |-> get_signal_value(ts[i], shape, freq, amp, dc)]

(***************************************************************************)
(* The sample count and the alias computation.                             *)
(***************************************************************************)
\* faulty variant: the "+ 1" forgotten
n_samples_no_endpoint(fs) == PyInt(T_DISPLAY[1] * fs, T_DISPLAY[2])

\* int(T_DISPLAY * sampling_freq) + 1
n_samples_of(fs) == PyInt(T_DISPLAY[1] * fs, T_DISPLAY[2]) + 1

\* faulty variant: one subtraction instead of a modulo
FoldOnce(f, fs) == IF f >= fs THEN f - fs ELSE f

\* signal_freq % sampling_freq, sampling_freq > 0
Fold(f, fs) == f % fs

\* faulty variant: no reflection about the Nyquist frequency
MirrorNever(fa, fs) == fa

\* if f_alias > f_nyquist: f_alias = sampling_freq - f_alias
\* (f_nyquist = sampling_freq / 2)
Mirror(fa, fs) == IF 2 * fa > fs THEN fs - fa ELSE fa

\* faulty variant: the absolute value forgotten
AliasTestSigned(fa, f) == 100 * (fa - f) > 1

\* faulty variant: a tolerance of 1 Hz
AliasTestWide(fa, f) == Abs(fa - f) > 1

\* abs(f_alias - signal_freq) > 0.01
AliasTest(fa, f) == 100 * Abs(fa - f) > 1

(***************************************************************************)
(* State.                                                                  *)
(***************************************************************************)
VARIABLES
    pc,             \* the statement the script is about to run
    dc_offset, amplitude, signal_shape, signal_freq, sampling_freq,
    t_analog, v_analog,
    dt_sample, n_samples, t_sample, v_sample,
    f_nyquist, f_alias, is_aliased,
    ui,             \* what the page has been sent, in order
    exception       \* the uncaught exception that ended the run, or "none"

vars == <<pc, dc_offset, amplitude, signal_shape, signal_freq, sampling_freq,
          t_analog, v_analog, dt_sample, n_samples, t_sample, v_sample,
          f_nyquist, f_alias, is_aliased, ui, exception>>

inputs == <<dc_offset, amplitude, signal_shape, signal_freq, sampling_freq>>
timeVars == <<t_analog, v_analog, dt_sample, n_samples, t_sample, v_sample>>
freqVars == <<f_nyquist, f_alias, is_aliased>>

\* the widget values of one render
SweepInputs ==
    /\ signal_shape \in ShapeOptions \cup {UnknownShape}
    /\ amplitude \in 0..MaxAmplitude
    /\ dc_offset \in (-MaxDcOffset)..MaxDcOffset
    /\ signal_freq \in 1..MaxSweepFreq
    /\ sampling_freq \in (-MaxNegSampling)..MaxSweepSampling

DefaultWaveInputs ==
    /\ signal_shape = DefaultShape
    /\ amplitude = DefaultAmplitude
    /\ dc_offset = DefaultDcOffset
    /\ signal_freq \in 1..MaxSignalFreq
    /\ sampling_freq \in 1..MaxSamplingFreq

Init ==
    /\ SweepInputs \/ DefaultWaveInputs
    /\ pc = "analog"
    /\ t_analog = <<>> /\ v_analog = <<>>
    /\ dt_sample = <<0, 1>> /\ n_samples = 0
    /\ t_sample = <<>> /\ v_sample = <<>>
    /\ f_nyquist = <<0, 1>> /\ f_alias = 0 /\ is_aliased = FALSE
    /\ ui = <<>>
    /\ exception = "none"

(***************************************************************************)
(* The script, statement by statement.                                     *)
(***************************************************************************)
\* t_analog = np.linspace(0, T_DISPLAY, N_ANALOG); v_analog = get_signal_value(...)
EvalAnalog ==
    /\ pc = "analog"
    /\ t_analog' = np_linspace(T_DISPLAY, N_ANALOG)
    /\ v_analog' = get_signal_values(t_analog', signal_shape, signal_freq,
                                     amplitude, dc_offset)
    /\ pc' = "dt_sample"
    /\ UNCHANGED <<inputs, dt_sample, n_samples, t_sample, v_sample, freqVars,
                   ui, exception>>

\* dt_sample = 1 / sampling_freq
ComputeDtSample ==
    /\ pc = "dt_sample"
    /\ IF sampling_freq = 0
       THEN /\ exception' = "ZeroDivisionError"
            /\ pc' = "done"
            /\ UNCHANGED dt_sample
       ELSE /\ dt_sample' = IF sampling_freq > 0 THEN <<1, sampling_freq>>
                                                 ELSE <<-1, -sampling_freq>>
            /\ pc' = "n_samples"
            /\ UNCHANGED exception
    /\ UNCHANGED <<inputs, t_analog, v_analog, n_samples, t_sample, v_sample,
                   freqVars, ui>>

\* n_samples = int(T_DISPLAY * sampling_freq) + 1
ComputeNSamples ==
    /\ pc = "n_samples"
    /\ n_samples' = n_samples_of(sampling_freq)
    /\ pc' = "t_sample"
    /\ UNCHANGED <<inputs, t_analog, v_analog, dt_sample, t_sample, v_sample,
                   freqVars, ui, exception>>

\* t_sample = np.linspace(0, T_DISPLAY, n_samples)
ComputeTSample ==
    /\ pc = "t_sample"
    /\ IF n_samples < 0
       THEN /\ exception' = "ValueError"
            /\ pc' = "done"
            /\ UNCHANGED t_sample
       ELSE /\ t_sample' = np_linspace(T_DISPLAY, n_samples)
            /\ pc' = "v_sample"
            /\ UNCHANGED exception
    /\ UNCHANGED <<inputs, t_analog, v_analog, dt_sample, n_samples, v_sample,
                   freqVars, ui>>

\* v_sample = get_signal_value(t_sample, ...)
EvalSample ==
    /\ pc = "v_sample"
    /\ v_sample' = get_signal_values(t_sample, signal_shape, signal_freq,
                                     amplitude, dc_offset)
    /\ pc' = "fig_time"
    /\ UNCHANGED <<inputs, t_analog, v_analog, dt_sample, n_samples, t_sample,
                   freqVars, ui, exception>>

\* fig_time = go.Figure() ... st.plotly_chart(fig_time)
PlotTime ==
    /\ pc = "fig_time"
    /\ ui' = Append(ui, "fig_time")
    /\ pc' = "check_fs"
    /\ UNCHANGED <<inputs, timeVars, freqVars, exception>>

\* if sampling_freq <= 0: st.error(...)
\* else: f_nyquist = sampling_freq / 2; if f_nyquist == 0: st.error(...)
CheckSamplingFreq ==
    /\ pc = "check_fs"
    /\ IF sampling_freq <= 0
       THEN /\ ui' = Append(ui, "error_sampling_freq")
            /\ pc' = "done"
            /\ UNCHANGED f_nyquist
       ELSE /\ f_nyquist' = <<sampling_freq, 2>>
            /\ IF f_nyquist'[1] = 0
               THEN /\ ui' = Append(ui, "error_nyquist_zero")
                    /\ pc' = "done"
               ELSE /\ pc' = "fold"
                    /\ UNCHANGED ui
    /\ UNCHANGED <<inputs, timeVars, f_alias, is_aliased, exception>>

\* is_aliased = False; f_alias = signal_freq % sampling_freq
FoldAlias ==
    /\ pc = "fold"
    /\ is_aliased' = FALSE
    /\ f_alias' = Fold(signal_freq, sampling_freq)
    /\ pc' = "mirror"
    /\ UNCHANGED <<inputs, timeVars, f_nyquist, ui, exception>>

\* if f_alias > f_nyquist: f_alias = sampling_freq - f_alias
MirrorAlias ==
    /\ pc = "mirror"
    /\ f_alias' = Mirror(f_alias, sampling_freq)
    /\ pc' = "alias_test"
    /\ UNCHANGED <<inputs, timeVars, f_nyquist, is_aliased, ui, exception>>

\* if abs(f_alias - signal_freq) > 0.01: is_aliased = True
TestAliased ==
    /\ pc = "alias_test"
    /\ is_aliased' = (is_aliased \/ AliasTest(f_alias, signal_freq))
    /\ pc' = "fig_freq"
    /\ UNCHANGED <<inputs, timeVars, f_nyquist, f_alias, ui, exception>>

\* fig_freq = go.Figure() ... st.plotly_chart(fig_freq); st.warning / st.success
PlotFreq ==
    /\ pc = "fig_freq"
    /\ ui' = IF is_aliased /\ amplitude > 0
             THEN ui \o <<"fig_freq", "warning_aliasing">>
             ELSE IF amplitude > 0
             THEN ui \o <<"fig_freq", "success">>
             ELSE Append(ui, "fig_freq")
    /\ pc' = "done"
    /\ UNCHANGED <<inputs, timeVars, freqVars, exception>>

Next ==
    \/ EvalAnalog
    \/ ComputeDtSample
    \/ ComputeNSamples
    \/ ComputeTSample
    \/ EvalSample
    \/ PlotTime
    \/ CheckSamplingFreq
    \/ FoldAlias
    \/ MirrorAlias
    \/ TestAliased
    \/ PlotFreq

Spec == Init /\ [][Next]_vars

(***************************************************************************)
(* Positions of the run at which a result is final.                        *)
(***************************************************************************)
\* t_sample holds the sparse grid of a run with a slider-range sampling rate
TSampleReady ==
    /\ sampling_freq >= 1
    /\ pc \notin {"analog", "dt_sample", "n_samples", "t_sample"}

\* f_alias has been folded and mirrored
AliasFinal ==
    /\ sampling_freq >= 1
    /\ pc \in {"alias_test", "fig_freq", "done"}

\* is_aliased has been decided
IsAliasedFinal ==
    /\ sampling_freq >= 1
    /\ pc \in {"fig_freq", "done"}

\* every voltage computed so far, analog and sampled
Voltages ==
    {v_analog[i] : i \in DOMAIN v_analog} \cup {v_sample[i] : i \in DOMAIN v_sample}

(***************************************************************************)
(* Claims.                                                                 *)
(***************************************************************************)
\* C1: for every signal frequency f > 0 and sampling frequency fs > 0 the
\* alias frequency left by the fold-and-mirror step lies in [0, fs/2].
AliasWithinNyquistBand ==
    AliasFinal => (0 <= f_alias /\ 2 * f_alias <= sampling_freq)

\* C1 case: a signal exactly at the Nyquist frequency ends on the band's edge
AliasAtBandEdge ==
    /\ pc = "done"
    /\ signal_freq = 50 /\ sampling_freq = 100
    /\ f_alias = 50

\* C2: the alias of f + k*fs equals the alias of f for every whole k >= 0:
\* the alias the run computed for signal_freq is the one the fold-and-mirror
\* computation gives for signal_freq minus any whole multiple of the
\* sampling rate that leaves a positive frequency.
AliasShiftInvariant ==
    AliasFinal =>
        \A k \in 0..(signal_freq \div sampling_freq) :
            signal_freq - k * sampling_freq >= 1 =>
                f_alias = Mirror(Fold(signal_freq - k * sampling_freq, sampling_freq),
                                 sampling_freq)

\* C2 case: 120 Hz sampled at 50 Hz, two multiples above its alias 20 Hz
AliasTwoMultiplesUp ==
    /\ pc = "done"
    /\ signal_freq = 120 /\ sampling_freq = 50
    /\ f_alias = 20

\* C3: the alias computation returns the fold-and-mirror reference result:
\* folded = f mod fs, alias = fs - folded when folded > fs/2 and folded
\* otherwise (folded = fs/2 is not mirrored), isAliased = |alias - f| > 0.01;
\* (40,100) gives 40 / false, (120,100) gives 20 / true, (70,100) gives
\* 30 / true.
AliasMatchesReference ==
    IsAliasedFinal =>
        LET folded == signal_freq - sampling_freq * (signal_freq \div sampling_freq)
            ref == IF 2 * folded > sampling_freq THEN sampling_freq - folded ELSE folded
        IN  /\ f_alias = ref
            /\ is_aliased = (100 * Abs(ref - signal_freq) > 1)
            /\ (signal_freq = 40 /\ sampling_freq = 100)
                  => (f_alias = 40 /\ ~is_aliased)
            /\ (signal_freq = 120 /\ sampling_freq = 100)
                  => (f_alias = 20 /\ is_aliased)
            /\ (signal_freq = 70 /\ sampling_freq = 100)
                  => (f_alias = 30 /\ is_aliased)

\* C3 case: the mirror example, 70 Hz sampled at 100 Hz
AliasMirrorExample ==
    /\ pc = "done"
    /\ signal_freq = 70 /\ sampling_freq = 100
    /\ f_alias = 30 /\ is_aliased
    /\ ui = <<"fig_time", "fig_freq", "warning_aliasing">>

\* C4: whenever the sampling frequency is <= 0 the run ends by reporting
\* the invalid-sampling-rate error: no other failure occurs first, no
\* spectrum is drawn and the error is the last thing reported.
InvalidSamplingRateReported ==
    (pc = "done" /\ sampling_freq <= 0) =>
        /\ exception = "none"
        /\ Len(ui) > 0
        /\ ui[Len(ui)] = "error_sampling_freq"
        /\ \A i \in DOMAIN ui : ui[i] # "fig_freq"

\* C5: evaluating the waveform with a shape that is not one of the four
\* known shapes fails with an invalid-shape error and returns no value.
UnknownShapeFails ==
    (signal_shape \notin ShapeOptions /\ pc # "analog") =>
        (exception = "InvalidShape" /\ v_analog = <<>>)

\* C6: for each of the four shapes, every frequency > 0, amplitude >= 0,
\* offset and time t >= 0, |evaluate(t) - dcOffset| <= amplitude.
WaveformWithinAmplitude ==
    signal_shape \in ShapeOptions =>
        \A v \in Voltages : Abs(v[1] - dc_offset * v[2]) <= amplitude * v[2]

\* C6 case: a sawtooth sampled past its first wrap, where the floor term is
\* at least 1, with a sample on the lower bound dc - amp
SawtoothWrapped ==
    /\ pc = "done"
    /\ signal_shape = "sawtooth" /\ amplitude = MaxAmplitude
    /\ \E i \in DOMAIN v_sample :
          /\ 2 * t_sample[i][1] * signal_freq >= 3 * t_sample[i][2]
          /\ RatEq(v_sample[i], <<dc_offset - amplitude, 1>>)

\* C7: with amplitude 0 the waveform equals dcOffset exactly at every time,
\* for every frequency and each of the four shapes.
ZeroAmplitudeIsDcOffset ==
    (amplitude = 0 /\ signal_shape \in ShapeOptions) =>
        \A v \in Voltages : v[1] = dc_offset * v[2]

\* C7 case: a square wave of amplitude 0 around a non-zero offset, sampled
\* at three or more times
ZeroAmplitudeSampled ==
    /\ pc = "done"
    /\ amplitude = 0 /\ dc_offset # 0
    /\ signal_shape = "square"
    /\ Len(v_sample) >= 3

\* C8: for a sampling frequency in the slider range the k-th sparse sample
\* is taken at k/fs: sample times are spaced by the sampling period
\* dt_sample = 1/fs.
SamplesSpacedBySamplingPeriod ==
    TSampleReady =>
        \A k \in DOMAIN t_sample :
            RatEq(t_sample[k], <<(k - 1) * dt_sample[1], dt_sample[2]>>)

\* C9 as stated: the sparse series has floor(0.1*fs) + 1 points with
\* strictly increasing times that start at 0 and end at 0.1 s.
SampleSeriesSpansWindow ==
    TSampleReady =>
        /\ Len(t_sample) = (sampling_freq \div 10) + 1
        /\ \A k \in 1..(Len(t_sample) - 1) : RatLess(t_sample[k], t_sample[k + 1])
        /\ RatEq(t_sample[1], <<0, 1>>)
        /\ RatEq(t_sample[Len(t_sample)], <<1, 10>>)

\* C9 amended: the sparse series has floor(0.1*fs) + 1 points with strictly
\* increasing times that start at 0; it ends at 0.1 s when it has two or
\* more points (fs >= 10) and is the single time 0 otherwise (fs < 10).
SampleSeriesCountAndEnds ==
    TSampleReady =>
        /\ Len(t_sample) = (sampling_freq \div 10) + 1
        /\ \A k \in 1..(Len(t_sample) - 1) : RatLess(t_sample[k], t_sample[k + 1])
        /\ RatEq(t_sample[1], <<0, 1>>)
        /\ sampling_freq >= 10 => RatEq(t_sample[Len(t_sample)], <<1, 10>>)
        /\ sampling_freq < 10 => Len(t_sample) = 1

\* C9 case: the 11 points of a 100 Hz sampling rate
ElevenSamplesAt100Hz ==
    /\ pc = "done"
    /\ sampling_freq = 100
    /\ Len(t_sample) = 11
    /\ RatEq(t_sample[11], <<1, 10>>)

\* C10: for integer frequencies in the slider range, is_aliased holds if
\* and only if f > fs/2; a signal at or below Nyquist (fs/2 included) keeps
\* aliasFrequency = f, and every signal above it (whole multiples of fs,
\* whose alias is 0, included) is reported as aliased.
AliasedIffAboveNyquist ==
    IsAliasedFinal =>
        /\ is_aliased <=> (2 * signal_freq > sampling_freq)
        /\ (2 * signal_freq <= sampling_freq) => f_alias = signal_freq
        /\ (signal_freq % sampling_freq = 0) => (f_alias = 0 /\ is_aliased)

\* C10 case: a whole multiple of the sampling rate, alias 0, and a warning
WholeMultipleAliased ==
    /\ pc = "done"
    /\ signal_freq = 2 * sampling_freq
    /\ f_alias = 0 /\ is_aliased
    /\ ui[Len(ui)] = "warning_aliasing"

=============================================================================
